---- MODULE Spec2Model ----
(***************************************************************************)
(* Krylov time-elapse engine of hylaa (src/hylaa/time_elapse_krylov.py):   *)
(* the run of make_cur_basis_mat_list over all initial vectors, the        *)
(* iteration autotuner, the error estimator and the assembler.             *)
(*                                                                         *)
(* Python lists and numpy arrays are functions over 0..len-1, so that the  *)
(* indices are those of the source.  An optional value (None or a value)   *)
(* is a sequence of length at most one.  The floating point value of a     *)
(* projected simulation is kept symbolic: SimValue(v, it, i, j) is a       *)
(* number that names coordinate j of step i of the simulation computed     *)
(* for initial vector v from the matrices of run_iteration(v, it); it is   *)
(* never 0, the value of a preallocated cell.                              *)
(***************************************************************************)
EXTENDS Integers, Sequences, FiniteSets, TLC

\* ---------------------------------------------------------------- bounds
MaxN == 7
MaxSteps == 3
KeyDirs == 2
InitVecs == 2
\* largest settings.num_steps for which get_error is applied on its own
EstSteps == 4
\* largest length of the vectors to which the error metric is applied on its own
VecLen == 3

\* settings.simulation.krylov_target_error, in units of the error scale
Limit == 2
\* the values one compute_error call can yield: 0, below, equal to, above the target
ErrVals == 0..(Limit + 1)

VARIABLES
    n,              \* time_elapser.a_matrix.shape[0]
    num_steps,      \* settings.num_steps
    use_odeint,     \* settings.simulation.krylov_use_odeint
    add_ones,       \* settings.simulation.krylov_add_ones_key_dir
    transpose,      \* settings.simulation.krylov_transpose
    stats_iter,     \* settings.simulation.krylov_error_stats_iterations (optional)
    pc,             \* position of the run inside make_cur_basis_mat_list
    init_index,     \* loop variable of make_cur_basis_mat_list
    arnoldi_iter,   \* local of arnoldi_sim_autotune
    error_limit,    \* local of arnoldi_sim_autotune (optional)
    sim,            \* local of arnoldi_sim_autotune / make_cur_basis_mat_list (optional)
    rv,             \* the result list of init_krylov
    stats,          \* time_elapser.stats['arnoldi_iter']
    tried,          \* history: the counts passed to run_iteration for the current vector
    last,           \* history: what the last attempt of the current vector did
    accepted,       \* history: per initial vector, the count requested by its accepted attempt
    untried,        \* oracle: a count never requested for the current vector at which the
                    \* estimator reports an error below the target (optional)
    writes,         \* history: how often each cell of rv[1..] was assigned
    provider,       \* time_elapser.krylov_iterator: its workspace and the calls it received
    ret_iter,       \* history: per initial vector, the count its accepting attempt returned
    report,         \* the lines of error.dat (count, error)
    est,            \* one application of the estimator, or of its metric, to chosen inputs,
                    \* and its result
    workers,        \* per initial vector, the locals of its autotune-and-assemble sequence
    par             \* how the sequences share the Provider, and which one is using it

cfg == <<n, num_steps, use_odeint, add_ones, transpose, stats_iter>>
vars == <<n, num_steps, use_odeint, add_ones, transpose, stats_iter, pc, init_index, arnoldi_iter, error_limit, sim, rv, stats,
          tried, last, accepted, untried, writes, provider, ret_iter, report, est,
          workers, par>>
\* the state of a run of make_cur_basis_mat_list
run == <<pc, init_index, arnoldi_iter, error_limit, sim, rv, stats, tried, last, accepted, untried,
         writes, provider, ret_iter, report>>
\* the state of the other specifications, which the run leaves alone
other == <<est, workers, par>>

\* ------------------------------------------------------------- helpers
None == <<>>
Some(x) == <<x>>
Max(a, b) == IF a >= b THEN a ELSE b
ListLen(l) == Cardinality(DOMAIN l)
\* list.append on a list indexed from 0
ListAppend(l, x) == [i \in 0..ListLen(l) |-> IF i < ListLen(l) THEN l[i] ELSE x]

RECURSIVE SumTo(_, _)
SumTo(f, k) == IF k = 0 THEN 0 ELSE f[k] + SumTo(f, k - 1)

\* key_dir_mat * init_space_csc (rows of the first times columns of the second)
MatMul(a, b, inner) ==
    [r \in DOMAIN a |-> [c \in DOMAIN b[0] |->
        SumTo([k \in 1..inner |-> a[r][k - 1] * b[k - 1][c]], inner)]]

\* time_elapser.key_dir_mat (KeyDirs x n) and time_elapser.init_space_csc (n x InitVecs)
key_dir_mat == [r \in 0..(KeyDirs - 1) |-> [c \in 0..(n - 1) |-> (r + c) % 2]]
init_space_csc == [r \in 0..(n - 1) |-> [c \in 0..(InitVecs - 1) |-> (r * (c + 1) + 1) % 3]]

\* safe_zeros('basis_matrix', shape): a matrix of zeros of the shape of m
safe_zeros(m) == [r \in DOMAIN m |-> [c \in DOMAIN m[r] |-> 0]]

\* number of initial vectors and length of a projected vector without the ones row
num_init_vecs == IF transpose THEN KeyDirs ELSE InitVecs
PieceLen == IF transpose THEN InitVecs ELSE KeyDirs

\* pv_mat . full_sim[i + 1]: the projected state at python index i of the simulation
\* (with the trailing ones coordinate when krylov_add_ones_key_dir is set)
Radix == MaxN + MaxSteps + KeyDirs + InitVecs
SimValue(v, it, i, j) == 1 + j + Radix * (i + Radix * (it + Radix * v))
Projected(v, it, i) ==
    [j \in 0..(PieceLen + (IF add_ones THEN 1 ELSE 0) - 1) |-> SimValue(v, it, i, j)]

\* ---------------------------------------------- Krylov Basis Provider
\* run_iteration(init_vec, iterations) returns (pv_mat, h_mat); only h_mat.shape[0]
\* matters here: iterations + 1 rows, or fewer when the subspace collapsed
ProviderRows(iterations) ==
    {iterations + 1} \cup ({2, 3, iterations} \cap 1..iterations)

\* ------------------------------------------------------ Error Estimator
\* the per-step inputs of get_error: e[s] is what compute_error yields when the
\* simulations of order k and k-1 are compared at step s of full_sim
Profiles == [1..num_steps -> ErrVals]
ConstProfile(x) == [s \in 1..num_steps |-> x]

\* The non-finite results of a floating point computation.  Every comparison of Python
\* with NaN is false, so that max(error, nan) is error and nan > limit is false: NaN is
\* placed below every finite error, Inf above.  Huge is the finite 1.0e16 of relative_error,
\* above any target.
NaN == -1
Inf == Limit + 2
Huge == Limit + 1
NonFinite == {NaN, Inf}

\* relative_error, x being what the norms yield: rel_error stays 1.0e16 unless they are finite
relative_error(x) == IF x \in NonFinite THEN Huge ELSE x

\* the coordinates of the vectors handed to the metric
VecVals == 0..2

\* abs
Abs(x) == IF x < 0 THEN -x ELSE x

\* for i in xrange(2, len(correct)): rv = max(rv, abs(correct[i] - estimate[i]))
RECURSIVE AbsoluteErrorLoop(_, _, _, _)
AbsoluteErrorLoop(i, correct, estimate, acc) ==
    IF i >= ListLen(correct) THEN acc
    ELSE AbsoluteErrorLoop(i + 1, correct, estimate, Max(acc, Abs(correct[i] - estimate[i])))

\* absolute_error(correct, estimate): rv = abs(correct[0] - estimate[0]), then the loop
absolute_error(correct, estimate) ==
    AbsoluteErrorLoop(2, correct, estimate, Abs(correct[0] - estimate[0]))

\* compute_error(correct, estimate, is_relative), x being what the metric computes from the
\* two vectors; the absolute metric returns a non-finite x as it is
compute_error(x, is_relative) == IF is_relative THEN relative_error(x) ELSE x

\* for step in [steps-1, steps / 2, 1]: ... if error > limit: break
RECURSIVE OdeSample(_, _, _, _)
OdeSample(order, e, limit, acc) ==
    IF order = <<>> THEN acc
    ELSE LET step == Head(order)
             error == Max(acc.error, e[step])
             nxt == [error |-> error, cmp |-> Append(acc.cmp, step)]
         IN  IF error > limit THEN nxt ELSE OdeSample(Tail(order), e, limit, nxt)

\* mutant of OdeScan: the scan stops at the limit but keeps the trajectory
RECURSIVE OdeScanKeepsSim(_, _, _, _)
OdeScanKeepsSim(step, e, limit, acc) ==
    IF step >= num_steps THEN acc
    ELSE LET error == Max(acc.error, e[step + 1])
             cmp == Append(acc.cmp, step + 1)
         IN  IF error > limit
             THEN [error |-> error, cmp |-> cmp, sim |-> acc.sim]
             ELSE OdeScanKeepsSim(step + 1, e, limit, [error |-> error, cmp |-> cmp, sim |-> acc.sim])

\* for step in xrange(0, sim.shape[0]): ... if error > limit: sim = None; break
RECURSIVE OdeScan(_, _, _, _)
OdeScan(step, e, limit, acc) ==
    IF step >= num_steps THEN acc
    ELSE LET error == Max(acc.error, e[step + 1])
             cmp == Append(acc.cmp, step + 1)
         IN  IF error > limit
             THEN [error |-> error, cmp |-> cmp, sim |-> None]
             ELSE OdeScan(step + 1, e, limit, [error |-> error, cmp |-> cmp, sim |-> acc.sim])

\* for step in xrange(2, settings.num_steps + 1): ... if limit is not None and error > limit: break
RECURSIVE ExpmLoop(_, _, _, _, _, _)
ExpmLoop(step, e, limit, acc, v, it) ==
    IF step > num_steps THEN acc
    ELSE LET error == Max(acc.error, e[step])
             nxt == [error |-> error, cmp |-> Append(acc.cmp, step),
                     sim |-> ListAppend(acc.sim, Projected(v, it, step - 1))]
         IN  IF limit # None /\ error > limit[1] THEN nxt
             ELSE ExpmLoop(step + 1, e, limit, nxt, v, it)

\* mutant of GetErrorOdeint: the trajectory is returned once the sampled steps pass
GetErrorOdeintSampled(limit, e, zero_first, v, it) ==
    IF limit = None
    THEN [exc |-> "", error |-> 0, cmp |-> <<>>, allocs |-> 1,
          sim |-> Some([i \in 0..(num_steps - 1) |-> Projected(v, it, i)])]
    ELSE LET steps == num_steps + 1
             start == IF zero_first THEN limit[1] + 1 ELSE 0
             sampled == OdeSample(<<steps - 1, steps \div 2, 1>>, e, limit[1],
                                  [error |-> start, cmp |-> <<>>])
         IN  [exc |-> "", error |-> sampled.error, cmp |-> sampled.cmp, allocs |-> 0,
              sim |-> IF sampled.error < limit[1]
                      THEN Some([i \in 0..(num_steps - 1) |-> Projected(v, it, i)])
                      ELSE None]

\* the odeint branch of get_error; allocs counts its safe_zeros calls (line 199)
GetErrorOdeint(limit, e, zero_first, v, it) ==
    IF limit = None
    THEN [exc |-> "", error |-> 0, cmp |-> <<>>, allocs |-> 1,
          sim |-> Some([i \in 0..(num_steps - 1) |-> Projected(v, it, i)])]
    ELSE LET steps == num_steps + 1
             start == IF zero_first THEN limit[1] + 1 ELSE 0
             sampled == OdeSample(<<steps - 1, steps \div 2, 1>>, e, limit[1],
                                  [error |-> start, cmp |-> <<>>])
             scanned == OdeScan(0, e, limit[1],
                                [error |-> sampled.error, cmp |-> sampled.cmp,
                                 sim |-> Some([i \in 0..(num_steps - 1) |-> Projected(v, it, i)])])
         IN  IF sampled.error < limit[1]
             THEN [exc |-> "", error |-> scanned.error, cmp |-> scanned.cmp, allocs |-> 0,
                   sim |-> scanned.sim]
             ELSE [exc |-> "", error |-> sampled.error, cmp |-> sampled.cmp, allocs |-> 0,
                   sim |-> None]

\* the expm branch of get_error (arnoldi_iter is None, return_sim is True): small_h_mat
\* is bound only when limit is not None
GetErrorExpm(limit, e, v, it) ==
    IF limit = None
    THEN [exc |-> "UnboundLocalError", error |-> 0, cmp |-> <<>>, allocs |-> 0, sim |-> None]
    ELSE LET first == [error |-> Max(0, e[1]), cmp |-> <<1>>,
                       sim |-> [i \in {0} |-> Projected(v, it, 0)]]
             done == ExpmLoop(2, e, limit, first, v, it)
         IN  [exc |-> "", error |-> done.error, cmp |-> done.cmp, allocs |-> 0,
              sim |-> Some(done.sim)]

\* get_error(settings, h_mat, pv_mat, return_sim=True, limit=limit), hdim = h_mat.shape[0]
get_error(hdim, limit, e, zero_first, v, it) ==
    IF ~(hdim > 1)
    THEN [exc |-> "AssertionError", error |-> 0, cmp |-> <<>>, allocs |-> 0, sim |-> None]
    ELSE IF use_odeint THEN GetErrorOdeint(limit, e, zero_first, v, it)
         ELSE GetErrorExpm(limit, e, v, it)

\* ------------------------------------------------------------ Autotuner
\* mutant of Decide: an error equal to the target is accepted
DecideAtLimit(limit, error, projected_sim) ==
    IF limit # None /\ error = 0 /\ ~add_ones THEN None
    ELSE IF limit = None \/ error <= limit[1] THEN projected_sim
    ELSE None

\* mutant of Decide: the zero-error special case is missing
DecideZeroTrusted(limit, error, projected_sim) ==
    IF limit = None \/ error < limit[1] THEN projected_sim ELSE None

\* mutant of Decide: what get_error built is returned whatever the error
DecideIgnoresError(limit, error, projected_sim) == projected_sim

\* the decision of arnoldi_sim_with_max_error on what get_error returned
Decide(limit, error, projected_sim) ==
    IF limit # None /\ error = 0 /\ ~add_ones THEN None
    ELSE IF limit = None \/ error < limit[1] THEN projected_sim
    ELSE None

\* arnoldi_sim_with_max_error(time_elapser, init_vec_csr, iterations, error_limit) when
\* run_iteration returns an h_mat of hrows rows
arnoldi_sim_with_max_error(v, iterations, limit_in, hrows, e, zero_first) ==
    IF stats_iter # None
    THEN [exc |-> "SystemExit", rv |-> None, iterations |-> iterations, limit |-> limit_in,
          error |-> 0, cmp |-> <<>>, allocs |-> 0]
    ELSE LET collapsed == hrows <= iterations
             limit == IF collapsed THEN None ELSE limit_in
             used == IF collapsed THEN hrows ELSE iterations
             got == get_error(hrows - 1, limit, e, zero_first, v, iterations)
         IN  [exc |-> got.exc,
              rv |-> IF got.exc = "" THEN Decide(limit, got.error, got.sim) ELSE None,
              iterations |-> used, limit |-> limit, error |-> got.error, cmp |-> got.cmp,
              allocs |-> got.allocs]

\* mutant of Clamp: the count is not capped at the system dimension
ClampOff(it) == it

\* if arnoldi_iter >= n: arnoldi_iter = n
Clamp(it) == IF it >= n THEN n ELSE it

\* if arnoldi_iter >= n: error_limit = None
ClampLimit(it, limit) == IF it >= n THEN None ELSE limit

\* arnoldi_iter = int(arnoldi_iter * 1.5)
Escalate(it) == (it * 3) \div 2

\* krylov_iterator before its first call: no workspace cached
FreshProvider == [held |-> FALSE, runs |-> 0, resets |-> 0]

\* the Provider after run_iteration(init_vec, iterations): it caches the workspace
run_iteration(p) == [p EXCEPT !.held = TRUE, !.runs = @ + 1]

\* mutant of reset: the workspace is not released
reset_skipped(p) == p

\* the Provider after reset(): the cached workspace is released
reset(p) == [p EXCEPT !.held = FALSE, !.resets = @ + 1]

\* the errors a sweep line can carry: the ODE-integration branch computes none without a limit
SweepErrVals == IF use_odeint THEN {0} ELSE {0, Limit + 1}

\* print_error_at_each_step: one line (aiter, max_error) for each aiter in
\* xrange(2, h_mat.shape[0]), se[aiter] being the error get_error returns for aiter
print_error_at_each_step(hrows, se) == [i \in 0..(hrows - 3) |-> <<i + 2, se[i + 2]>>]

\* mutant of init_stats: the list of an earlier run is kept
init_stats_kept(old) == old

\* time_elapser.stats['arnoldi_iter'] = []
init_stats(old) == <<>>

\* the per-vector sequences are not run side by side
NoPar == [own |-> FALSE, holder |-> None]

\* no application of the estimator on its own is under way
EstIdle == [phase |-> "off"]

NoAttempt == [req |-> 0, rows |-> 0, k |-> 0, clamped |-> FALSE, limit_on |-> FALSE, error |-> 0,
              computed |-> FALSE, accepted |-> FALSE, exc |-> "", allocs |-> 0]

\* ------------------------------------------------------------- the run
Init ==
    /\ n \in 1..MaxN
    /\ num_steps \in 1..MaxSteps
    /\ use_odeint \in BOOLEAN
    /\ add_ones \in BOOLEAN
    /\ transpose \in BOOLEAN
    /\ stats_iter \in {None, Some(MaxN)}
    /\ pc = "start"
    /\ init_index = 0
    /\ arnoldi_iter = 0
    /\ error_limit = None
    /\ sim = None
    /\ rv = <<>>
    \* the statistics of an earlier run may still be there
    /\ stats \in {<<>>, [i \in {0} |-> 1]}
    /\ tried = <<>>
    /\ last = NoAttempt
    /\ untried = None
    /\ accepted = <<>>
    /\ writes = <<>>
    /\ provider = FreshProvider
    /\ ret_iter = <<>>
    /\ report = <<>>
    /\ est = EstIdle
    /\ workers = <<>>
    /\ par = NoPar

\* mutant of init_krylov: one zero matrix too few is appended
init_krylov_short ==
    LET step_zero_mat == MatMul(key_dir_mat, init_space_csc, n)
    IN  [i \in 0..(num_steps - 1) |-> IF i = 0 THEN step_zero_mat ELSE safe_zeros(step_zero_mat)]

\* init_krylov: stats['arnoldi_iter'] = [], rv = [step_zero_mat] + num_steps zero matrices
init_krylov ==
    LET step_zero_mat == MatMul(key_dir_mat, init_space_csc, n)
    IN  [i \in 0..num_steps |-> IF i = 0 THEN step_zero_mat ELSE safe_zeros(step_zero_mat)]

InitKrylov ==
    /\ pc = "start"
    /\ rv' = init_krylov
    /\ stats' = init_stats(stats)
    /\ writes' = [i \in 1..num_steps |->
                    [r \in 0..(KeyDirs - 1) |-> [c \in 0..(InitVecs - 1) |-> 0]]]
    /\ init_index' = 0
    /\ pc' = "loop"
    /\ accepted' = <<>>
    /\ UNCHANGED <<cfg, arnoldi_iter, error_limit, sim, tried, last, untried, provider, ret_iter, report, other>>

\* entry of arnoldi_sim_autotune for init_space[init_index]
BeginAutotune ==
    /\ pc = "loop"
    /\ init_index < num_init_vecs
    /\ arnoldi_iter' = IF stats_iter # None THEN stats_iter[1] ELSE 4
    /\ error_limit' = Some(Limit)
    /\ sim' = None
    /\ pc' = "tune"
    /\ UNCHANGED <<cfg, init_index, rv, stats, tried, last, accepted, untried, writes, provider, ret_iter,
                   report, other>>

\* one pass of the while loop of arnoldi_sim_autotune
Attempt ==
    /\ pc = "tune"
    /\ LET clamped == arnoldi_iter >= n
           req == Clamp(arnoldi_iter)
           limit == ClampLimit(arnoldi_iter, error_limit)
       IN  \E hrows \in ProviderRows(req) :
             \* the estimator's inputs matter only when it runs with the target active
             LET inputs == {x \in Profiles \X BOOLEAN :
                              /\ x[2] => (use_odeint /\ limit # None /\ hrows > req)
                              /\ (limit = None \/ hrows <= req \/ stats_iter # None)
                                    => x[1] = ConstProfile(0)}
             IN  \E res \in {arnoldi_sim_with_max_error(init_index, req, limit, hrows, x[1], x[2]) :
                                x \in inputs} :
                    /\ tried' = Append(tried, req)
                    /\ provider' = run_iteration(provider)
                    /\ report' \in IF res.exc = "SystemExit"
                                   THEN {print_error_at_each_step(hrows, se) :
                                            se \in [2..(hrows - 1) -> SweepErrVals]}
                                   ELSE {report}
                    /\ last' = [req |-> req, rows |-> hrows, k |-> res.iterations, clamped |-> clamped,
                                limit_on |-> res.limit # None, error |-> res.error,
                                computed |-> res.cmp # <<>>, accepted |-> res.rv # None, exc |-> res.exc,
                                allocs |-> res.allocs]
                    /\ error_limit' = limit
                    /\ sim' = res.rv
                    /\ arnoldi_iter' = IF res.exc # "" THEN req
                                       ELSE IF res.rv # None THEN res.iterations
                                       ELSE Escalate(res.iterations)
                    /\ pc' = IF res.exc = "SystemExit" THEN "exited"
                             ELSE IF res.exc # "" THEN "aborted"
                             ELSE IF res.rv # None THEN "accepted"
                             ELSE "tune"
    /\ UNCHANGED <<cfg, init_index, rv, stats, accepted, untried, writes, ret_iter, other>>

\* after the loop: krylov_iterator.reset(), stats['arnoldi_iter'].append, return sim
TuneFinish ==
    /\ pc = "accepted"
    /\ provider' = reset(provider)
    /\ stats' = ListAppend(stats, arnoldi_iter)
    /\ accepted' = ListAppend(accepted, last.req)
    /\ ret_iter' = ListAppend(ret_iter, last.k)
    /\ untried' \in {None} \cup {Some(c) : c \in (2..(n - 1)) \ {tried[i] : i \in DOMAIN tried}}
    /\ pc' = "assign"
    /\ UNCHANGED <<cfg, init_index, arnoldi_iter, error_limit, sim, rv, tried, last, writes, report, other>>

\* ------------------------------------------------------------ Assembler
\* mutant of Piece: the leading coordinate is stripped instead of the trailing one
PieceDropFirst(s, i) ==
    IF add_ones THEN [j \in 0..(ListLen(s[i]) - 2) |-> s[i][j + 1]] ELSE s[i]

\* piece of step i: sim[i][:-1] with the ones row, sim[i][:] without
Piece(s, i) ==
    IF add_ones THEN [j \in 0..(ListLen(s[i]) - 2) |-> s[i][j]] ELSE s[i]

\* mutant of AssignedCells: the row is assigned where the column is meant, and conversely
AssignedCellsWrongAxis(res, s, index) ==
    {<<i + 1, r, c>> : i \in DOMAIN s, r \in DOMAIN res[0], c \in DOMAIN res[0][0]}
    \cap {x \in (0..ListLen(res)) \X (0..KeyDirs) \X (0..InitVecs) :
            IF transpose THEN x[3] = index ELSE x[2] = index}

\* mutant of AssignedCells: the loop stops one step early, xrange(len(sim) - 1)
AssignedCellsSkipLast(res, s, index) ==
    {<<i + 1, r, c>> : i \in (DOMAIN s) \ {ListLen(s) - 1}, r \in DOMAIN res[0],
                       c \in DOMAIN res[0][0]}
    \cap {x \in (0..ListLen(res)) \X (0..KeyDirs) \X (0..InitVecs) :
            IF transpose THEN x[2] = index ELSE x[3] = index}

\* the cells <<i, r, c>> of rv that assign_from_sim assigns: rv[i+1][index] (a row) when
\* krylov_transpose is set, rv[i+1][:, index] (a column) otherwise, for i in xrange(len(sim))
AssignedCells(res, s, index) ==
    {<<i + 1, r, c>> : i \in DOMAIN s, r \in DOMAIN res[0], c \in DOMAIN res[0][0]}
    \cap {x \in (0..ListLen(res)) \X (0..KeyDirs) \X (0..InitVecs) :
            IF transpose THEN x[2] = index ELSE x[3] = index}

\* mutant of assign_from_sim: step i is written into rv[i] instead of rv[i+1]
assign_from_sim_entry_i(res, s, index) ==
    [i \in DOMAIN res |-> [r \in DOMAIN res[i] |-> [c \in DOMAIN res[i][r] |->
        IF i \in DOMAIN s /\ (IF transpose THEN r = index ELSE c = index)
        THEN Piece(s, i)[IF transpose THEN c ELSE r]
        ELSE res[i][r][c]]]]

\* assign_from_sim(rv, sim, index, settings) for a sim of the asserted length
assign_from_sim(res, s, index) ==
    LET cells == AssignedCells(res, s, index)
    IN  [i \in DOMAIN res |-> [r \in DOMAIN res[i] |-> [c \in DOMAIN res[i][r] |->
            IF <<i, r, c>> \in cells
            THEN Piece(s, i - 1)[IF transpose THEN c ELSE r]
            ELSE res[i][r][c]]]]

AssignFromSim ==
    /\ pc = "assign"
    /\ IF ListLen(sim[1]) = ListLen(rv) - 1
       THEN /\ rv' = assign_from_sim(rv, sim[1], init_index)
            /\ LET cells == AssignedCells(rv, sim[1], init_index)
               IN  writes' = [i \in DOMAIN writes |-> [r \in DOMAIN writes[i] |->
                                [c \in DOMAIN writes[i][r] |->
                                    IF <<i, r, c>> \in cells
                                    THEN writes[i][r][c] + 1 ELSE writes[i][r][c]]]]
            /\ init_index' = init_index + 1
            /\ pc' = "loop"
       ELSE /\ pc' = "aborted"
            /\ UNCHANGED <<rv, writes, init_index>>
    \* the locals of arnoldi_sim_autotune are gone and the history starts afresh
    /\ arnoldi_iter' = 0
    /\ error_limit' = None
    /\ sim' = None
    /\ tried' = <<>>
    /\ last' = NoAttempt
    /\ untried' = None
    /\ UNCHANGED <<cfg, stats, accepted, provider, ret_iter, report, other>>

\* the loop over the initial vectors is over
Finish ==
    /\ pc = "loop"
    /\ init_index >= num_init_vecs
    /\ pc' = "done"
    /\ UNCHANGED <<cfg, init_index, arnoldi_iter, error_limit, sim, rv, stats, tried, last,
                   accepted, untried, writes, provider, ret_iter, report, other>>

Next ==
    \/ InitKrylov
    \/ BeginAutotune
    \/ Attempt
    \/ TuneFinish
    \/ AssignFromSim
    \/ Finish

Spec == Init /\ [][Next]_vars

\* ------------------------------------- the estimator applied on its own
\* what the metric computes at each step: any value, non-finite at no more than one step
RawProfiles ==
    {x \in [1..num_steps -> ErrVals \cup NonFinite] :
        Cardinality({t \in 1..num_steps : x[t] \in NonFinite}) <= 1}

\* the errors compute_error returns for the raw profile x
Errors(x, is_relative) == [t \in 1..num_steps |-> compute_error(x[t], is_relative)]

\* inputs of one call: the settings, the limit passed and what the simulations yield
EstInit ==
    /\ n = MaxN
    /\ num_steps \in 1..EstSteps
    /\ use_odeint \in BOOLEAN
    /\ add_ones \in BOOLEAN
    /\ transpose = FALSE
    /\ stats_iter = None
    /\ pc = "estimator"
    /\ init_index = 0
    /\ arnoldi_iter = 4
    /\ error_limit = None
    /\ sim = None
    /\ rv = <<>>
    /\ stats = <<>>
    /\ tried = <<>>
    /\ last = NoAttempt
    /\ untried = None
    /\ accepted = <<>>
    /\ writes = <<>>
    /\ provider = FreshProvider
    /\ ret_iter = <<>>
    /\ report = <<>>
    /\ workers = <<>>
    /\ par = NoPar
    /\ \E x \in RawProfiles, rel \in BOOLEAN, limit \in {None, Some(Limit)}, zero_first \in BOOLEAN :
          \* what has no effect is not varied: the zero test is made in ODE-integration
          \* mode with a limit, no error is read without a limit, and the two metrics
          \* differ on non-finite values only
          /\ zero_first => (use_odeint /\ limit # None)
          /\ limit = None => x = ConstProfile(0)
          /\ rel => (\E t \in 1..num_steps : x[t] \in NonFinite)
          /\ est = [phase |-> "input", x |-> x, rel |-> rel, limit |-> limit,
                    zero_first |-> zero_first, out |-> <<>>]

\* error, sim = get_error(settings, h_mat, pv_mat, return_sim=True, limit=limit) for the
\* matrices of run_iteration(init_vec, arnoldi_iter)
EstGetError ==
    /\ est.phase = "input"
    /\ est' = [est EXCEPT !.phase = "estimated",
                          !.out = get_error(arnoldi_iter, est.limit, Errors(est.x, est.rel),
                                            est.zero_first, init_index, arnoldi_iter)]
    /\ UNCHANGED <<cfg, run, workers, par>>

\* arnoldi_sim_with_max_error(time_elapser, init_vec, arnoldi_iter, limit), run_iteration
\* returning the arnoldi_iter + 1 rows asked for
EstAttempt ==
    /\ est.phase = "input"
    /\ est' = [est EXCEPT !.phase = "attempted",
                          !.out = arnoldi_sim_with_max_error(init_index, arnoldi_iter, est.limit,
                                      arnoldi_iter + 1, Errors(est.x, est.rel), est.zero_first)]
    /\ UNCHANGED <<cfg, run, workers, par>>

EstNext ==
    \/ EstGetError
    \/ EstAttempt

SpecEstimator == EstInit /\ [][EstNext]_vars

\* ---------------------------------- the absolute metric applied on its own
\* the numpy vectors of one length, indexed from 0
Vectors(len) == [0..(len - 1) -> VecVals]

\* inputs of one call compute_error(correct, estimate, False): two vectors of equal length
MetricInit ==
    /\ n = MaxN
    /\ num_steps = 1
    /\ use_odeint = FALSE
    /\ add_ones = FALSE
    /\ transpose = FALSE
    /\ stats_iter = None
    /\ pc = "metric"
    /\ init_index = 0
    /\ arnoldi_iter = 0
    /\ error_limit = None
    /\ sim = None
    /\ rv = <<>>
    /\ stats = <<>>
    /\ tried = <<>>
    /\ last = NoAttempt
    /\ untried = None
    /\ accepted = <<>>
    /\ writes = <<>>
    /\ provider = FreshProvider
    /\ ret_iter = <<>>
    /\ report = <<>>
    /\ workers = <<>>
    /\ par = NoPar
    /\ \E len \in 1..VecLen :
          \E correct \in Vectors(len), estimate \in Vectors(len) :
              est = [phase |-> "vectors", correct |-> correct, estimate |-> estimate, out |-> <<>>]

\* compute_error(correct, estimate, False), which returns absolute_error(correct, estimate)
MetricAbsolute ==
    /\ est.phase = "vectors"
    /\ est' = [est EXCEPT !.phase = "measured",
                          !.out = Some(compute_error(absolute_error(est.correct, est.estimate), FALSE))]
    /\ UNCHANGED <<cfg, run, workers, par>>

MetricNext == MetricAbsolute

SpecMetric == MetricInit /\ [][MetricNext]_vars

\* --------------------- the per-vector sequences of the loop, interleaved
\* The body of the loop of make_cur_basis_mat_list for init_index = w, one worker per
\* initial vector: arnoldi_sim_autotune (one step per pass of its loop, one for what follows
\* the loop) and assign_from_sim (one step per pass of its loop).  Either every worker has a
\* Provider of its own (par.own) or they share one, which a worker uses from its first
\* run_iteration to its reset, the span in which the Provider caches its workspace.
Workers == 0..(num_init_vecs - 1)

\* mutant of assign_step: the row is assigned where the column is meant, and conversely
assign_step_wrong_axis(res, s, index, i) ==
    [k \in DOMAIN res |-> [r \in DOMAIN res[k] |-> [c \in DOMAIN res[k][r] |->
        IF k = i + 1 /\ (IF transpose THEN c = index ELSE r = index)
        THEN Piece(s, i)[IF transpose THEN c ELSE r]
        ELSE res[k][r][c]]]]

\* one pass of the loop of assign_from_sim: rv[i+1][index] = piece or rv[i+1][:, index] = piece
assign_step(res, s, index, i) ==
    [k \in DOMAIN res |-> [r \in DOMAIN res[k] |-> [c \in DOMAIN res[k][r] |->
        IF k = i + 1 /\ (IF transpose THEN r = index ELSE c = index)
        THEN Piece(s, i)[IF transpose THEN c ELSE r]
        ELSE res[k][r][c]]]]

\* after init_krylov, every worker at the head of the loop of arnoldi_sim_autotune
ParInit ==
    \* a dimension at which the first pass runs with the target and the second is clamped
    /\ n = 5
    /\ num_steps \in 1..MaxSteps
    /\ use_odeint = TRUE
    /\ add_ones \in BOOLEAN
    /\ transpose \in BOOLEAN
    /\ stats_iter = None
    /\ pc = "par"
    /\ init_index = 0
    /\ arnoldi_iter = 0
    /\ error_limit = None
    /\ sim = None
    /\ rv = init_krylov
    /\ stats = <<>>
    /\ tried = <<>>
    /\ last = NoAttempt
    /\ untried = None
    /\ accepted = <<>>
    /\ writes = [i \in 1..num_steps |->
                    [r \in 0..(KeyDirs - 1) |-> [c \in 0..(InitVecs - 1) |-> 0]]]
    /\ provider = FreshProvider
    /\ ret_iter = <<>>
    /\ report = <<>>
    /\ est = EstIdle
    /\ workers = [w \in Workers |-> [pc |-> "tune", arnoldi_iter |-> 4,
                                      error_limit |-> Some(Limit), sim |-> None, step |-> 0]]
    /\ par \in {[own |-> o, holder |-> None] : o \in BOOLEAN}

\* one pass of the while loop of arnoldi_sim_autotune for vector w
ParAttempt(w) ==
    /\ workers[w].pc = "tune"
    /\ par.own \/ par.holder \in {None, Some(w)}
    /\ LET req == Clamp(workers[w].arnoldi_iter)
           limit == ClampLimit(workers[w].arnoldi_iter, workers[w].error_limit)
       \* the Provider returns the rows asked for, the error is the same at every step
       IN  \E hrows \in {req + 1} :
             LET inputs == {x \in {ConstProfile(y) : y \in ErrVals} \X BOOLEAN :
                              /\ x[2] => limit # None
                              /\ limit = None => x[1] = ConstProfile(0)}
             IN  \E res \in {arnoldi_sim_with_max_error(w, req, limit, hrows, x[1], x[2]) :
                                x \in inputs} :
                    workers' = [workers EXCEPT ![w] =
                        [pc |-> IF res.exc # "" THEN "aborted"
                                ELSE IF res.rv # None THEN "accepted" ELSE "tune",
                         arnoldi_iter |-> IF res.exc # "" THEN req
                                          ELSE IF res.rv # None THEN res.iterations
                                          ELSE Escalate(res.iterations),
                         error_limit |-> limit, sim |-> res.rv, step |-> 0]]
    /\ provider' = run_iteration(provider)
    /\ par' = [par EXCEPT !.holder = IF par.own THEN None ELSE Some(w)]
    /\ UNCHANGED <<cfg, pc, init_index, arnoldi_iter, error_limit, sim, rv, stats, tried, last,
                   accepted, untried, writes, ret_iter, report, est>>

\* after the loop: krylov_iterator.reset(), stats['arnoldi_iter'].append, return sim
ParTuneFinish(w) ==
    /\ workers[w].pc = "accepted"
    /\ provider' = reset(provider)
    /\ par' = [par EXCEPT !.holder = None]
    /\ stats' = ListAppend(stats, workers[w].arnoldi_iter)
    /\ workers' = [workers EXCEPT ![w].pc = "assign"]
    /\ UNCHANGED <<cfg, pc, init_index, arnoldi_iter, error_limit, sim, rv, tried, last,
                   accepted, untried, writes, ret_iter, report, est>>

\* assign_from_sim(rv, sim, w, settings): the assert, then one pass of its loop
ParAssignStep(w) ==
    /\ workers[w].pc = "assign"
    /\ LET s == workers[w].sim[1]
           i == workers[w].step
       IN  IF ListLen(s) # ListLen(rv) - 1
           THEN /\ workers' = [workers EXCEPT ![w].pc = "aborted"]
                /\ UNCHANGED <<rv, writes>>
           ELSE /\ rv' = assign_step(rv, s, w, i)
                /\ writes' = [k \in DOMAIN writes |-> [r \in DOMAIN writes[k] |->
                                 [c \in DOMAIN writes[k][r] |->
                                     IF k = i + 1 /\ (IF transpose THEN r = w ELSE c = w)
                                     THEN writes[k][r][c] + 1 ELSE writes[k][r][c]]]]
                /\ workers' = [workers EXCEPT ![w].step = i + 1,
                                              ![w].pc = IF i + 1 < ListLen(s) THEN "assign" ELSE "done"]
    /\ UNCHANGED <<cfg, pc, init_index, arnoldi_iter, error_limit, sim, stats, tried, last,
                   accepted, untried, provider, ret_iter, report, est, par>>

ParNext ==
    \/ \E w \in Workers : ParAttempt(w)
    \/ \E w \in Workers : ParTuneFinish(w)
    \/ \E w \in Workers : ParAssignStep(w)

SpecPar == ParInit /\ [][ParNext]_vars

\* ================================================================ claims
\* arnoldi_sim_autotune has left its loop with a trajectory (before or after recording k)
Returned == pc \in {"accepted", "assign"}

\* the counts 4, 6, 9, ... each the floor of 1.5 times the one before, capped at n
IsEscalation(t) ==
    /\ t # <<>>
    /\ t[1] = (IF 4 >= n THEN n ELSE 4)
    /\ \A i \in 2..Len(t) :
          t[i] = (IF (3 * t[i - 1]) \div 2 >= n THEN n ELSE (3 * t[i - 1]) \div 2)

\* the attempt recorded in a met the acceptance rule of arnoldi_sim_with_max_error
MetRule(a) ==
    /\ a.accepted
    /\ \/ /\ a.limit_on
          /\ a.k = a.req /\ a.req < n
          /\ a.error < Limit /\ (a.error = 0 => add_ones)
       \/ /\ ~a.limit_on /\ a.rows > a.req
          /\ a.req = n /\ a.k = n
       \/ /\ ~a.limit_on /\ a.rows <= a.req
          /\ a.k = a.rows

\* C1 (as stated): when arnoldi_sim_autotune returns with count k (here: accepted with the
\* target active, after an earlier rejection), k is the smallest count at which the Error
\* Estimator reports an error below the target: no count between the first request and k
\* is one at which it does.
C1_SmallestCount ==
    (pc = "assign" /\ last.limit_on /\ untried # None /\ untried[1] > tried[1])
    => untried[1] > arnoldi_iter

\* C1 (amended): when arnoldi_sim_autotune returns with count k, the counts it requested are
\* the escalation sequence 4, 6, 9, ... capped at N, every attempt before the last was
\* rejected with the target active (error not below the target, or exactly zero without the
\* augmentation coordinate), and the last attempt was accepted: with the target active, a
\* requested count k < N and an error below the target (non-zero unless the augmentation
\* coordinate is enabled), or with the target disabled because the count reached N (k = N)
\* or because the Provider returned no more rows than requested (k = the rows returned).
C1_FirstAcceptedOfEscalation ==
    /\ (pc = "tune" /\ tried # <<>>) =>
          /\ ~last.accepted /\ last.limit_on /\ last.k = last.req
          /\ (last.error >= Limit \/ (last.error = 0 /\ ~add_ones))
    /\ Returned =>
          /\ IsEscalation(tried)
          /\ last.req = tried[Len(tried)]
          /\ arnoldi_iter = last.k
          /\ MetRule(last)

\* C1 witness: the loop returned 6 after rejecting 4 although the untried count 5 qualifies
C1_Witness ==
    /\ pc = "assign" /\ Len(tried) >= 2 /\ last.limit_on
    /\ untried # None /\ untried[1] < arnoldi_iter /\ untried[1] > tried[1]

\* C2 (as stated): an attempt whose count reached N (the Provider returning the requested
\* size) is accepted on that very attempt with k = N and without any compute_error call,
\* in both back-ends.
C2_ClampAcceptsWithoutError ==
    (tried # <<>> /\ stats_iter = None /\ last.clamped
        /\ last.rows = last.req + 1 /\ last.rows > 2)
    => (Returned /\ last.accepted /\ last.k = n /\ ~last.computed)

\* C3: the counts passed to run_iteration for one start vector never decrease, and every
\* requested, accepted and recorded count is at most N.
C3_CountsMonotoneAndCapped ==
    /\ \A i \in 1..Len(tried) : tried[i] <= n
    /\ \A i \in 1..(Len(tried) - 1) : tried[i] <= tried[i + 1]
    /\ Returned => (arnoldi_iter <= n /\ last.k <= n)
    /\ \A i \in DOMAIN stats : stats[i] <= n

\* C3 witness: a vector accepted on its third request, with its count recorded
C3_Witness ==
    /\ pc = "assign" /\ Len(tried) = 3 /\ tried[1] < tried[2] /\ tried[2] < tried[3]
    /\ stats[ListLen(stats) - 1] = tried[3]

\* C4: an attempt whose computed error is exactly 0 while the augmentation coordinate is
\* disabled is rejected, returns no trajectory, and the next request is strictly larger.
C4_ZeroErrorRejected ==
    (last.computed /\ last.error = 0 /\ ~add_ones) =>
        /\ ~last.accepted /\ sim = None /\ pc = "tune"
        /\ (IF arnoldi_iter >= n THEN n ELSE arnoldi_iter) > last.req

\* C4 witness: a zero error was computed without the augmentation coordinate
C4_Witness ==
    pc = "tune" /\ last.computed /\ last.error = 0 /\ ~add_ones /\ last.req = 4

\* C5 (as stated): for every N, initial count and estimator outcomes the autotune loop
\* reaches acceptance: once an attempt was made (the Provider returning the requested size,
\* no diagnostic override) the loop is still running or has accepted.
C5_LoopReachesAcceptance ==
    (tried # <<>> /\ stats_iter = None /\ last.rows = last.req + 1 /\ last.rows > 2)
    => (pc = "tune" \/ (Returned /\ last.accepted))

\* the initial vector that owns cell (r, c) and the coordinate of its trajectory stored there
Owner(r, c) == IF transpose THEN r ELSE c
Coord(r, c) == IF transpose THEN c ELSE r
Rows == 0..(KeyDirs - 1)
Cols == 0..(InitVecs - 1)

\* C6: every value in entries 1..num_steps of the result list is the preallocated zero or
\* the matching step of the trajectory accepted for the vector owning the cell, and the
\* trajectory handed to the Assembler is the complete one of an attempt that met the
\* acceptance rule: never a rejected attempt's, never a prefix cut short by the limit.
C6_OnlyAcceptedTrajectories ==
    /\ pc # "start" =>
          \A i \in 1..num_steps, r \in Rows, c \in Cols :
              \/ rv[i][r][c] = 0
              \/ /\ Owner(r, c) < ListLen(accepted)
                 /\ rv[i][r][c] = SimValue(Owner(r, c), accepted[Owner(r, c)], i - 1, Coord(r, c))
    /\ pc = "assign" =>
          /\ MetRule(last)
          /\ accepted[init_index] = last.req
          /\ sim = Some([i \in 0..(num_steps - 1) |->
                            [j \in 0..(PieceLen - (IF add_ones THEN 0 ELSE 1)) |->
                                SimValue(init_index, last.req, i, j)]])

\* C6 witness: the first vector's trajectory, accepted on the second attempt, is stored
C6_Witness ==
    /\ pc = "loop" /\ init_index = 1 /\ accepted[0] = 6 /\ ~use_odeint /\ num_steps = MaxSteps
    /\ \A i \in 1..num_steps : rv[i][0][0] = SimValue(0, 6, i - 1, 0)

\* C7: the result list has num_steps + 1 entries when init_krylov returns and in every
\* later state of the run.
C7_LengthFixed ==
    pc # "start" => (DOMAIN rv = 0..num_steps /\ ListLen(rv) = num_steps + 1)

\* C7 witness: a completed run with the largest step count
C7_Witness ==
    pc = "done" /\ num_steps = MaxSteps /\ ListLen(rv) = MaxSteps + 1

\* C8: entry 0 of the result list is key_dir_mat * init_space_csc from init_krylov on; no
\* later step of the run changes it.
C8_StepZeroFixed ==
    pc # "start" =>
        rv[0] = [r \in Rows |-> [c \in Cols |->
                    SumTo([k \in 1..n |-> key_dir_mat[r][k - 1] * init_space_csc[k - 1][c]], n)]]

\* C8 witness: a completed run of a system of the largest dimension, whose entry 0 is not
\* all zero and whose entry 1 was assembled
C8_Witness ==
    /\ pc = "done" /\ n = MaxN /\ rv[0][0][0] # 0
    /\ \A r \in Rows, c \in Cols : rv[1][r][c] # 0

\* C9: every cell of entries 1..num_steps is assigned at most once, exactly the cells of the
\* vectors already assembled have been assigned, and when the run returns every cell was
\* assigned once, by the call for its own vector, one call per initial vector.
C9_WriteOnce ==
    /\ pc # "start" =>
          \A i \in 1..num_steps, r \in Rows, c \in Cols :
              writes[i][r][c] = (IF Owner(r, c) < init_index THEN 1 ELSE 0)
    /\ pc = "done" =>
          /\ init_index = num_init_vecs /\ ListLen(accepted) = num_init_vecs
          /\ \A i \in 1..num_steps, r \in Rows, c \in Cols :
                /\ writes[i][r][c] = 1
                /\ rv[i][r][c] = SimValue(Owner(r, c), accepted[Owner(r, c)], i - 1, Coord(r, c))

\* C9 witness: a run in transposed mode has returned with every cell assigned once
C9_Witness ==
    /\ pc = "done" /\ transpose /\ num_steps = MaxSteps
    /\ \A i \in 1..num_steps, r \in Rows, c \in Cols : writes[i][r][c] = 1

\* C10: a call assign_from_sim(rv, sim, index) with len(sim) = num_steps stores coordinate j
\* of step i (the trailing augmentation coordinate left out) in rv[i+1] at column index
\* (row index in transposed mode), and leaves every other cell of every entry as it was.
C10_AssignWritesOwnColumn ==
    [][(pc = "assign" /\ pc' = "loop") =>
          \A i \in 0..num_steps, r \in Rows, c \in Cols :
              rv'[i][r][c] = (IF i >= 1 /\ Owner(r, c) = init_index
                              THEN sim[1][i - 1][Coord(r, c)]
                              ELSE rv[i][r][c])]_vars

\* C10 witness: with the augmentation coordinate enabled the second vector was assembled
\* next to the first one
C10_Witness ==
    /\ pc = "loop" /\ init_index = 2 /\ add_ones /\ ~transpose
    /\ rv[1][0][0] = SimValue(0, accepted[0], 0, 0)
    /\ rv[1][0][1] = SimValue(1, accepted[1], 0, 0)

\* the steps at which a result of the estimator compared the two simulations
Compared(out) == {out.cmp[i] : i \in DOMAIN out.cmp}

C12_ExhaustionRecovered ==
    (tried # <<>> /\ stats_iter = None /\ ~last.limit_on /\ last.rows > 2)
    => (last.exc = "" /\ last.accepted)

\* C13 (as stated): the estimator never returns a non-finite error to the Autotuner, and an
\* attempt in which an error computation yielded a non-finite value aborts the run.
C13_NonFiniteIsFatal ==
    est.phase = "attempted" =>
        /\ est.out.error \notin NonFinite
        /\ (\E t \in Compared(est.out) : est.x[t] \in NonFinite) => est.out.exc # ""

\* C14 (as stated): every allocation that can fail with resource exhaustion (a safe_zeros
\* call) happens before the first run_iteration call: no attempt, which begins with
\* run_iteration, performs one.
C14_AllocationsBeforeSimulation ==
    tried # <<>> => last.allocs = 0

\* C15: for every accepted vector reset() is called exactly once, after the accepting
\* run_iteration call (the workspace is still held when the loop is left) and before the
\* Autotuner returns: no reset between the attempts of a vector, the workspace is released
\* when the Assembler runs and when the next vector's first run_iteration is made, a cell is
\* written only after the reset of its vector, and a completed run made one reset per vector.
C15_ResetOncePerVector ==
    /\ pc \in {"loop", "tune", "accepted"} => provider.resets = init_index
    /\ pc = "accepted" => provider.held
    /\ pc = "assign" => (provider.resets = init_index + 1 /\ ~provider.held)
    /\ (pc = "loop" \/ (pc = "tune" /\ tried = <<>>)) => ~provider.held
    /\ pc = "done" => (provider.resets = num_init_vecs /\ ~provider.held)
    /\ pc # "start" =>
          \A i \in 1..num_steps, r \in Rows, c \in Cols :
              writes[i][r][c] > 0 => Owner(r, c) < provider.resets

\* C15 witness: a completed run in which run_iteration was called more often than reset
C15_Witness ==
    /\ pc = "done" /\ provider.resets = num_init_vecs /\ provider.runs > provider.resets

\* C16 (as stated): no exit path of a run (without the diagnostic override), a fatal abort
\* inside the Error Estimator included, leaves the Provider workspace acquired.
C16_WorkspaceReleased ==
    (stats_iter = None /\ pc \in {"done", "aborted"}) => ~provider.held

\* C17: RunStatistics is emptied at the start of a run; afterwards it holds one entry for
\* each vector whose autotune returned, the count returned by its accepting attempt, in the
\* order of the vectors; rejected attempts add none; a completed run has one per vector.
C17_StatsOnePerVector ==
    /\ pc # "start" => (stats = ret_iter /\ ListLen(stats) = ListLen(accepted))
    /\ pc \in {"loop", "tune", "accepted"} => ListLen(stats) = init_index
    /\ pc = "assign" => (ListLen(stats) = init_index + 1 /\ stats[init_index] = last.k)
    /\ pc = "done" => ListLen(stats) = num_init_vecs

\* C17 witness: a completed run whose first vector was accepted at 6 after a rejection and
\* whose second vector was accepted at the 3 rows of a collapsed subspace
C17_Witness ==
    /\ pc = "done" /\ stats[0] = 6 /\ stats[1] = 3 /\ accepted[1] = 4

\* for init_index in xrange(num_init_vecs): assign_from_sim(rv, sim, init_index, settings),
\* run in the order of the vectors on the trajectories the workers ws accepted
RECURSIVE SeqAssign(_, _, _)
SeqAssign(res, v, ws) ==
    IF v >= num_init_vecs THEN res
    ELSE SeqAssign(assign_from_sim(res, ws[v].sim[1], v), v + 1, ws)

\* the result list of the sequential run
SequentialResult(ws) == SeqAssign(init_krylov, 0, ws)

C19_DiagnosticReturnsData ==
    (stats_iter # None /\ tried # <<>>) =>
        /\ Len(tried) = 1
        /\ ListLen(report) = Max(last.rows - 2, 0)
        /\ \A i \in DOMAIN report : report[i][1] = i + 2
        /\ \A i \in 1..num_steps, r \in Rows, c \in Cols : rv[i][r][c] = 0
        /\ stats = <<>>
        /\ pc # "exited"

\* the order in which the ODE-integration branch samples the steps: last, middle, first
SampleOrder == <<num_steps, (num_steps + 1) \div 2, 1>>

\* C20: in ODE-integration mode with a limit, get_error first compares the last, middle and
\* first step, in that order; it scans the steps 1, 2, ... exactly when all three sampled
\* errors are below the limit; the scan stops at the first step whose running error exceeds
\* the limit and then no trajectory is returned; a trajectory is returned only by a scan that
\* went through all steps.
C20_SampleThenScan ==
    (est.phase = "estimated" /\ use_odeint /\ est.limit # None) =>
        LET out == est.out
            e == Errors(est.x, est.rel)
            scanned == Len(out.cmp) - 3
            passed == ~est.zero_first /\ \A i \in 1..3 : e[SampleOrder[i]] < Limit
        IN  /\ Len(out.cmp) >= 1
            /\ \A i \in 1..Len(out.cmp) :
                  out.cmp[i] = (IF i <= 3 THEN SampleOrder[i] ELSE i - 3)
            /\ (scanned > 0) = passed
            /\ scanned <= 0 => out.sim = None
            /\ scanned > 0 =>
                  /\ \A t \in 1..(scanned - 1) : e[t] <= Limit
                  /\ IF e[scanned] > Limit THEN out.sim = None
                     ELSE scanned = num_steps /\ out.sim # None

\* C20 witness: the three sampled steps passed and the scan stopped at step 3, which was
\* not sampled, without a trajectory
C20_Witness ==
    /\ est.phase = "estimated" /\ use_odeint /\ est.limit # None
    /\ num_steps = 4 /\ est.out.cmp = <<4, 2, 1, 1, 2, 3>> /\ est.out.sim = None
    /\ \A t \in 1..num_steps : est.x[t] \notin NonFinite

\* C21 (as stated): an attempt for which the Provider returned no more rows than the count
\* requested (a count below N, the matrix handed to get_error having more than one row)
\* runs with the error target disabled and without any error comparison, is accepted, and
\* the count returned to the Autotuner is the number of rows returned, not the count
\* requested.
C21_CollapseTreatedAsExact ==
    (tried # <<>> /\ stats_iter = None /\ ~last.clamped /\ last.rows <= last.req /\ last.rows > 2)
    => /\ ~last.limit_on /\ ~last.computed
       /\ last.k = last.rows
       /\ last.exc = "" /\ last.accepted /\ Returned /\ arnoldi_iter = last.rows

\* the largest per-coordinate absolute difference of two vectors of equal length
MaxDifference(correct, estimate) ==
    CHOOSE m \in {Abs(correct[i] - estimate[i]) : i \in DOMAIN correct} :
        \A i \in DOMAIN correct : Abs(correct[i] - estimate[i]) <= m

\* C22 (as stated): for two vectors of equal length >= 1, absolute_error(correct, estimate),
\* which compute_error returns for the absolute metric, is the maximum over every coordinate
\* i of |correct[i] - estimate[i]|.
C22_AbsoluteErrorIsMaximum ==
    est.phase = "measured" => est.out = Some(MaxDifference(est.correct, est.estimate))

\* C23: every trajectory arnoldi_sim_autotune returns has exactly num_steps entries, which is
\* len(rv) - 1, in both back-ends and with the error target active or disabled, so that the
\* assert of assign_from_sim never fails: a run aborts only inside an attempt.
C23_ReturnedTrajectoryFull ==
    /\ Returned =>
          /\ sim # None
          /\ DOMAIN sim[1] = 0..(num_steps - 1)
          /\ ListLen(sim[1]) = ListLen(rv) - 1
    /\ pc = "aborted" => last.exc # ""

\* C23 witness: the matrix-exponential branch, whose trajectory of a rejected attempt may stop
\* short, returned a trajectory of the largest step count on the second attempt, with the
\* target active
C23_Witness ==
    /\ pc = "assign" /\ ~use_odeint /\ num_steps = MaxSteps /\ Len(tried) = 2 /\ last.limit_on
    /\ ListLen(sim[1]) = MaxSteps

====
